---- MODULE Spec2Model ----
(***************************************************************************)
(* TinyLog (src/src/tinylog/tinylog.hpp): the Logger class with its        *)
(* process-wide logger chain, its text and JSON output streams, and the    *)
(* log operation.                                                          *)
(*                                                                         *)
(* The model is of a debug build (NDEBUG undefined): every assert of the   *)
(* source is active and a failed assert terminates the process; the        *)
(* default log level is TINYLOG_DEFAULT_DEBUG_MODE_LOG_LEVEL.              *)
(*                                                                         *)
(* A std::string is a sequence of one-character strings.  What a stream    *)
(* has received is a sequence of chunks, one chunk per call of a function  *)
(* that writes: "[" (addJsonOutput), "]" (disableJsonOutput, once per      *)
(* entry), one JSON object with or without a "," before it                 *)
(* (logToJsonOutputStream), one text line (logToStringOutputStream).       *)
(***************************************************************************)
EXTENDS Integers, Sequences, FiniteSets, TLC

(***************************************************************************)
(* Bounds of the model.                                                    *)
(***************************************************************************)
\* Spec, the runs of the output streams: Loggers constructed in one run,
\* entries of one output-stream vector (the same stream may be entered
\* twice), chunks written in one run.
MaxLoggers == 1
MaxSinks == 2
MaxOut == 7
\* SpecChain, the runs of the logger chain: the same three bounds.
ChainMaxLoggers == 3
ChainMaxSinks == 1
ChainMaxOut == 3
\* SpecEscape and SpecFormat: one Logger and one stream for each output.
\* SpecEscape: at most one text line and one JSON object in the streams, the
\* message and the extras drawn from the strings of up to EscapeMaxLen
\* characters.  SpecFormat: at most FormatMaxOut chunks, of which one text
\* line and no JSON object.
TextMaxLoggers == 1
TextMaxSinks == 1
TextMaxOut == 4
EscapeMaxRecords == 1
EscapeMaxLen == 2
FormatMaxOut == 2
FormatMaxLines == 1
FormatMaxObjects == 0

\* The std::ostream objects of the host program.
Streams == {"s1", "s2"}

\* What std::time / std::strftime may return (getIso8601Timestamp).
Timestamps == {"1970-01-01T00:00:00Z"}

(***************************************************************************)
(* enum LogLevel : char                                                    *)
(***************************************************************************)
DEBUG == 0
INFO == 1
WARN == 2
ERROR == 3
FATAL == 4
INHERIT == -1

\* The levels an event is logged with.
LogLevels == {DEBUG, INFO, WARN, ERROR, FATAL}
\* The values of a Logger's currentLogLevel.
ConfigLevels == LogLevels \cup {INHERIT}
\* What reading currentLogLevel through a pointer to a destroyed Logger may
\* yield besides the value the Logger had: INHERIT, the lowest level, a char
\* above every level.
DanglingValues == {INHERIT, DEBUG, FATAL + 1}

TINYLOG_DEFAULT_DEBUG_MODE_LOG_LEVEL == INFO
TINYLOG_DEFAULT_LOG_LEVEL == TINYLOG_DEFAULT_DEBUG_MODE_LOG_LEVEL
TINYLOG_EXTRAS_ON_SEPARATE_LINES == 0

(***************************************************************************)
(* Strings                                                                 *)
(***************************************************************************)
QUOTE == "\""
APOSTROPHE == "'"

RECURSIVE Spaces(_)
Spaces(n) == IF n <= 0 THEN << >> ELSE <<" ">> \o Spaces(n - 1)

DigitChars == <<"0", "1", "2", "3", "4", "5", "6", "7", "8", "9">>

\* operator<<(int): the decimal digits of n, with a leading "-" below zero.
RECURSIVE NatToChars(_)
NatToChars(n) ==
    IF n < 10 THEN <<DigitChars[n + 1]>>
    ELSE NatToChars(n \div 10) \o <<DigitChars[(n % 10) + 1]>>

IntToChars(n) == IF n < 0 THEN <<"-">> \o NatToChars(-n) ELSE NatToChars(n)

\* Mutant of escapeString: only the first double quote is replaced.
escapeString_FirstOnly(stringToEscape) ==
    [i \in 1..Len(stringToEscape) |->
        IF stringToEscape[i] = QUOTE
           /\ \A j \in 1..(i - 1) : stringToEscape[j] # QUOTE
           THEN APOSTROPHE ELSE stringToEscape[i]]

\* std::replace(s.begin(), s.end(), '\"', '\'')
escapeString(stringToEscape) ==
    [i \in 1..Len(stringToEscape) |->
        IF stringToEscape[i] = QUOTE THEN APOSTROPHE ELSE stringToEscape[i]]

escapeAll(extras) == [i \in 1..Len(extras) |-> escapeString(extras[i])]

\* The switch of getLogLevelName.
LogLevelString(logLevel) ==
    CASE logLevel = DEBUG -> <<"D", "E", "B", "U", "G">>
      [] logLevel = INFO -> <<"I", "N", "F", "O">>
      [] logLevel = WARN -> <<"W", "A", "R", "N">>
      [] logLevel = ERROR -> <<"E", "R", "R", "O", "R">>
      [] logLevel = FATAL -> <<"F", "A", "T", "A", "L">>
      [] logLevel = INHERIT -> <<"I", "N", "H", "E", "R", "I", "T">>

\* The padding loop of getLogLevelName: while (size < 5) += " ".
RECURSIVE PadTo5(_)
PadTo5(returnString) ==
    IF Len(returnString) < 5 THEN PadTo5(returnString \o <<" ">>) ELSE returnString

getLogLevelName(logLevel, doPad) ==
    IF doPad THEN PadTo5(LogLevelString(logLevel)) ELSE LogLevelString(logLevel)

(***************************************************************************)
(* Chunks of output                                                        *)
(***************************************************************************)
OpenChunk == [kind |-> "[", comma |-> FALSE, text |-> << >>, object |-> << >>]
CloseChunk == [kind |-> "]", comma |-> FALSE, text |-> << >>, object |-> << >>]
LineChunk(text) == [kind |-> "line", comma |-> FALSE, text |-> text, object |-> << >>]
\* comma: a "," is written right before the object.
ObjectChunk(comma, object) ==
    [kind |-> "object", comma |-> comma, text |-> << >>, object |-> object]

\* Mutant of ExtraText: no space before an inline extra.
ExtraText_NoSpace(logLevelName, extra) ==
    (IF TINYLOG_EXTRAS_ON_SEPARATE_LINES # 0
        THEN <<"\n">> \o Spaces(Len(logLevelName) + 3) \o <<"-", " ">>
        ELSE << >>)
    \o extra \o <<" ", ";">>

\* The text of one extra in a text line.
ExtraText(logLevelName, extra) ==
    (IF TINYLOG_EXTRAS_ON_SEPARATE_LINES # 0
        THEN <<"\n">> \o Spaces(Len(logLevelName) + 3) \o <<"-", " ">>
        ELSE <<" ">>)
    \o extra \o <<" ", ";">>

RECURSIVE ExtrasText(_, _)
ExtrasText(logLevelName, extras) ==
    IF extras = << >> THEN << >>
    ELSE ExtraText(logLevelName, Head(extras)) \o ExtrasText(logLevelName, Tail(extras))

\* The characters logToStringOutputStream writes to one stream.
StringLine(givenLogLevel, showTimestamp, filePath, lineNumber, message, extras, timestamp) ==
    LET logLevelName == getLogLevelName(givenLogLevel, TRUE) IN
    <<"[">> \o logLevelName \o <<"]", " ">>
    \o (IF showTimestamp THEN <<timestamp, " ", "-", " ">> ELSE << >>)
    \o (IF filePath # << >> THEN filePath \o <<" ">> ELSE << >>)
    \o (IF lineNumber # -1
           THEN <<"(", "l", "i", "n", "e", " ">> \o IntToChars(lineNumber) \o <<")", " ">>
           ELSE << >>)
    \o (IF filePath # << >> \/ lineNumber # -1 THEN <<"-", " ">> ELSE << >>)
    \o message
    \o (IF Len(extras) > 0
           THEN <<" ", "-", " ", "E", "X", "T", "R", "A", "S", " ">>
                \o (IF TINYLOG_EXTRAS_ON_SEPARATE_LINES # 0 THEN <<":">> ELSE <<"-", " ">>)
           ELSE << >>)
    \o ExtrasText(logLevelName, extras)
    \o <<"\n">>

\* The object logToJsonOutputStream writes, as its fields in order.
JsonObject(givenLogLevel, message, extras, timestamp) ==
    << <<"severity", getLogLevelName(givenLogLevel, FALSE)>>,
       <<"message", message>>,
       <<"timestamp", <<timestamp>> >> >>
    \o (IF Len(extras) > 0 THEN << <<"extras", extras>> >> ELSE << >>)

\* Mutant of JsonChunk: the "," from the third object on only.
JsonChunk_LateComma(count, givenLogLevel, message, extras, timestamp) ==
    ObjectChunk(count > 1, JsonObject(givenLogLevel, message, extras, timestamp))

\* What logToJsonOutputStream writes to one stream.
JsonChunk(count, givenLogLevel, message, extras, timestamp) ==
    ObjectChunk(count > 0, JsonObject(givenLogLevel, message, extras, timestamp))

\* Mutant of WriteEach: the loop stops after the first stream.
WriteEach_FirstOnly(outputs, streams, chunks) ==
    IF streams = << >> THEN outputs
    ELSE [outputs EXCEPT ![Head(streams)] = @ \o Head(chunks)]

\* outputs with chunks[i] written to streams[i], for i = 1, 2, ... in order.
RECURSIVE WriteEach(_, _, _)
WriteEach(outputs, streams, chunks) ==
    IF streams = << >> THEN outputs
    ELSE WriteEach([outputs EXCEPT ![Head(streams)] = @ \o Head(chunks)],
                   Tail(streams), Tail(chunks))

(***************************************************************************)
(* State                                                                   *)
(***************************************************************************)
VARIABLES
    loggers,                \* Logger::loggers: the Loggers constructed, in order
    currentLogLevel,        \* Logger::currentLogLevel of every Logger constructed
    alive,                  \* the Loggers constructed and not destroyed
    stringOutputStreams,    \* Logger::stringOutputStreams
    isStringOutputEnabled,  \* Logger::isStringOutputEnabled
    jsonOutputStreams,      \* Logger::jsonOutputStreams
    isJsonOutputEnabled,    \* Logger::isJsonOutputEnabled
    jsonOutputsCount,       \* Logger::jsonOutputsCount
    output,                 \* what each stream has received, as chunks
    aborted,                \* an assert has failed: the process is gone
    lastCall,               \* the last operation called, and what it read
    passedSinceEnable,      \* history: log calls that passed the filter since
                            \* the last enableJsonOutput; -1 outside of JSON output
    span,                   \* history: the JSON output begun by the last
                            \* enableJsonOutput called with JSON output disabled
    lateJoin                \* history: per stream, whether it awaits its first
                            \* object since an addJsonOutput made after objects

progVars == <<loggers, currentLogLevel, alive, stringOutputStreams,
              isStringOutputEnabled, jsonOutputStreams, isJsonOutputEnabled,
              jsonOutputsCount, output, aborted>>
histVars == <<lastCall, passedSinceEnable, span, lateJoin>>
vars == <<progVars, histVars>>

(***************************************************************************)
(* Inputs and history records                                              *)
(***************************************************************************)
NoArgs == [message |-> << >>, extras |-> << >>, filePath |-> << >>,
           lineNumber |-> -1, showTimestamp |-> FALSE]
NoLevel == INHERIT - 1
NoCall == [op |-> "none", logger |-> 0, level |-> NoLevel, stream |-> "none",
           args |-> NoArgs, threshold |-> NoLevel, wasEnabled |-> FALSE]
NoSpan == [state |-> "none", stream |-> "none", start |-> 0, calls |-> << >>,
           reenabled |-> FALSE, readded |-> FALSE]

Call(op, logger, level, stream, args, threshold, wasEnabled) ==
    [op |-> op, logger |-> logger, level |-> level, stream |-> stream,
     args |-> args, threshold |-> threshold, wasEnabled |-> wasEnabled]

(***************************************************************************)
(* Logger::getLogLevel                                                     *)
(***************************************************************************)
\* What loggers[index]->currentLogLevel may read (index 0-based, as in the
\* source): the level of a live Logger; through the pointer to a destroyed
\* one, the level it had or any of DanglingValues; past the end of the
\* vector, any of DanglingValues.
ReadLevel(index) ==
    IF index + 1 \notin DOMAIN loggers THEN DanglingValues
    ELSE LET logger == loggers[index + 1] IN
         IF logger \in alive THEN {currentLogLevel[logger]}
                             ELSE {currentLogLevel[logger]} \cup DanglingValues

\* The loop of getLogLevel from currentLoggerIndex on: the values it may return.
RECURSIVE WalkFrom(_)
WalkFrom(currentLoggerIndex) ==
    UNION { IF level = INHERIT
               THEN IF currentLoggerIndex = 0
                       THEN {TINYLOG_DEFAULT_LOG_LEVEL}
                       ELSE WalkFrom(currentLoggerIndex - 1)
               ELSE {level} : level \in ReadLevel(currentLoggerIndex) }

\* The indices the loop of getLogLevel may read from currentLoggerIndex on.
RECURSIVE WalkIndices(_)
WalkIndices(currentLoggerIndex) ==
    {currentLoggerIndex}
    \cup (IF INHERIT \in ReadLevel(currentLoggerIndex) /\ currentLoggerIndex # 0
             THEN WalkIndices(currentLoggerIndex - 1) ELSE {})

\* Mutant of StartIndex: the walk starts at loggers.size().
StartIndex_PastEnd(this) == Len(loggers)

\* The index getLogLevel starts from.
StartIndex(this) == Len(loggers) - 1

\* The values getLogLevel may return when called on this.
getLogLevel(this) == WalkFrom(StartIndex(this))

\* Mutants of Filtered: <= for <, and a comparison one level too low.
Filtered_OrEqual(givenLogLevel, threshold) == givenLogLevel <= threshold
Filtered_OneBelow(givenLogLevel, threshold) == givenLogLevel + 1 < threshold

\* The shortcut of log: the event is dropped.
Filtered(givenLogLevel, threshold) == givenLogLevel < threshold

(***************************************************************************)
(* Initial state: the static members as initialised, no Logger yet         *)
(***************************************************************************)
Init ==
    /\ loggers = << >>
    /\ currentLogLevel = << >>
    /\ alive = {}
    /\ stringOutputStreams = << >>
    /\ isStringOutputEnabled = FALSE
    /\ jsonOutputStreams = << >>
    /\ isJsonOutputEnabled = FALSE
    /\ jsonOutputsCount = 0
    /\ output = [s \in Streams |-> << >>]
    /\ aborted = FALSE
    /\ lastCall = NoCall
    /\ passedSinceEnable = -1
    /\ span = NoSpan
    /\ lateJoin = [s \in Streams |-> "no"]

\* Mutant of AssertFails: the assert comes after the body of the function.
AssertFails_AfterBody(call) ==
    /\ aborted' = TRUE
    /\ lastCall' = call
    /\ stringOutputStreams' =
          IF call.op = "addStringOutput" THEN Append(stringOutputStreams, call.stream)
                                         ELSE stringOutputStreams
    /\ jsonOutputStreams' =
          IF call.op = "addJsonOutput" THEN Append(jsonOutputStreams, call.stream)
                                       ELSE jsonOutputStreams
    /\ output' =
          IF call.op = "addJsonOutput"
             THEN [output EXCEPT ![call.stream] = @ \o <<OpenChunk>>] ELSE output
    /\ UNCHANGED <<loggers, currentLogLevel, alive, isStringOutputEnabled,
                   isJsonOutputEnabled, jsonOutputsCount, passedSinceEnable, span,
                   lateJoin>>

\* A failed assert: the process terminates, nothing else happens.
AssertFails(call) ==
    /\ aborted' = TRUE
    /\ lastCall' = call
    /\ UNCHANGED <<loggers, currentLogLevel, alive, stringOutputStreams,
                   isStringOutputEnabled, jsonOutputStreams, isJsonOutputEnabled,
                   jsonOutputsCount, output, passedSinceEnable, span, lateJoin>>

(***************************************************************************)
(* Logger::Logger and Logger::~Logger                                      *)
(***************************************************************************)
Construct(logLevel) ==
    /\ ~aborted
    /\ LET this == Len(loggers) + 1 IN
        /\ loggers' = Append(loggers, this)
        /\ currentLogLevel' = Append(currentLogLevel, logLevel)
        /\ alive' = alive \cup {this}
        /\ lastCall' = Call("Logger", this, logLevel, "none", NoArgs, NoLevel, FALSE)
    /\ UNCHANGED <<stringOutputStreams, isStringOutputEnabled, jsonOutputStreams,
                   isJsonOutputEnabled, jsonOutputsCount, output, aborted,
                   passedSinceEnable, span, lateJoin>>

\* Mutant of ClosedOutputs: no "]" is written.
ClosedOutputs_None == output

\* The "]" disableJsonOutput writes to every entry of jsonOutputStreams.
ClosedOutputs ==
    WriteEach(output, jsonOutputStreams,
              [i \in 1..Len(jsonOutputStreams) |-> <<CloseChunk>>])

\* Mutant of DisableStringBody: the flag is left as it is.
DisableStringBody_KeepsFlag ==
    /\ stringOutputStreams' = << >>
    /\ isStringOutputEnabled' = isStringOutputEnabled

\* The body of disableStringOutput.
DisableStringBody ==
    /\ stringOutputStreams' = << >>
    /\ isStringOutputEnabled' = FALSE

\* Mutant of DisableJsonBody: the vector is not cleared.
DisableJsonBody_NoClear ==
    /\ output' = WriteEach(output, jsonOutputStreams,
                           [i \in 1..Len(jsonOutputStreams) |-> <<CloseChunk>>])
    /\ jsonOutputStreams' = jsonOutputStreams
    /\ isJsonOutputEnabled' = FALSE
    /\ jsonOutputsCount' = 0

\* The body of disableJsonOutput.
DisableJsonBody ==
    /\ output' = ClosedOutputs
    /\ jsonOutputStreams' = << >>
    /\ isJsonOutputEnabled' = FALSE
    /\ jsonOutputsCount' = 0

\* History kept at the end of a JSON output.
EndJsonHistory(by) ==
    /\ passedSinceEnable' = -1
    /\ span' = IF span.state = "open" THEN [span EXCEPT !.state = by] ELSE span
    /\ lateJoin' = lateJoin

\* Mutant of Destroy: the destructor takes the Logger off the chain.
Destroy_Unregisters(this) ==
    /\ ~aborted
    /\ this \in alive
    /\ alive' = alive \ {this}
    /\ loggers' = SelectSeq(loggers, LAMBDA logger : logger # this)
    /\ DisableStringBody
    /\ DisableJsonBody
    /\ EndJsonHistory("torn")
    /\ lastCall' = Call("~Logger", this, currentLogLevel[this], "none", NoArgs,
                        NoLevel, isStringOutputEnabled \/ isJsonOutputEnabled)
    /\ UNCHANGED <<currentLogLevel, aborted>>

Destroy(this) ==
    /\ ~aborted
    /\ this \in alive
    /\ alive' = alive \ {this}
    /\ DisableStringBody
    /\ DisableJsonBody
    /\ EndJsonHistory("torn")
    /\ lastCall' = Call("~Logger", this, currentLogLevel[this], "none", NoArgs,
                        NoLevel, isStringOutputEnabled \/ isJsonOutputEnabled)
    /\ UNCHANGED <<loggers, currentLogLevel, aborted>>

(***************************************************************************)
(* Logger::getLogLevel, called by the host                                 *)
(***************************************************************************)
GetLogLevel(this) ==
    /\ ~aborted
    /\ this \in alive
    /\ IF ~(StartIndex(this) >= 0)
          THEN AssertFails(Call("getLogLevel", this, currentLogLevel[this], "none",
                                NoArgs, NoLevel, FALSE))
          ELSE /\ \E threshold \in getLogLevel(this) :
                    lastCall' = Call("getLogLevel", this, currentLogLevel[this], "none",
                                     NoArgs, threshold, FALSE)
               /\ UNCHANGED <<progVars, passedSinceEnable, span, lateJoin>>

(***************************************************************************)
(* Logger::log                                                             *)
(***************************************************************************)
Range(seq) == {seq[i] : i \in 1..Len(seq)}

\* Mutant of CountAfterLog: one more per JSON stream written.
CountAfterLog_PerStream(count) == count + Len(jsonOutputStreams)

\* The value of jsonOutputsCount after a log call that wrote JSON.
CountAfterLog(count) == count + 1

\* The outputs after the string-output loop of log.
AfterStringOutput(outputs, givenLogLevel, args, stamps) ==
    IF isStringOutputEnabled
        THEN WriteEach(outputs, stringOutputStreams,
                 [i \in 1..Len(stringOutputStreams) |->
                     <<LineChunk(StringLine(givenLogLevel, args.showTimestamp,
                                            args.filePath, args.lineNumber,
                                            args.message, args.extras, stamps[i]))>>])
        ELSE outputs

\* The outputs after the JSON-output loop of log.
AfterJsonOutput(outputs, givenLogLevel, args, stamps) ==
    IF isJsonOutputEnabled
        THEN LET messageCopy == escapeString(args.message)
                 extrasCopy == escapeAll(args.extras)
             IN WriteEach(outputs, jsonOutputStreams,
                    [i \in 1..Len(jsonOutputStreams) |->
                        <<JsonChunk(jsonOutputsCount, givenLogLevel, messageCopy,
                                    extrasCopy, stamps[i])>>])
        ELSE outputs

LogBody(this, givenLogLevel, args) ==
    /\ \E threshold \in getLogLevel(this),
          stringStamps \in [1..Len(stringOutputStreams) -> Timestamps],
          jsonStamps \in [1..Len(jsonOutputStreams) -> Timestamps] :
        LET written == AfterJsonOutput(
                           AfterStringOutput(output, givenLogLevel, args, stringStamps),
                           givenLogLevel, args, jsonStamps)
        IN
        /\ lastCall' = Call("log", this, givenLogLevel, "none", args, threshold, FALSE)
        /\ IF Filtered(givenLogLevel, threshold)
              THEN UNCHANGED <<output, jsonOutputsCount, passedSinceEnable, span, lateJoin>>
              ELSE /\ output' = written
                   /\ jsonOutputsCount' =
                         IF isJsonOutputEnabled THEN CountAfterLog(jsonOutputsCount)
                                                ELSE jsonOutputsCount
                   /\ passedSinceEnable' =
                         IF passedSinceEnable >= 0 THEN passedSinceEnable + 1
                                                   ELSE passedSinceEnable
                   /\ span' =
                         IF span.state = "open"
                            THEN [span EXCEPT !.calls =
                                    Append(@, [level |-> givenLogLevel, args |-> args,
                                               timestamp |-> jsonStamps[1]])]
                            ELSE span
                   /\ lateJoin' =
                         [s \in Streams |->
                            IF isJsonOutputEnabled /\ s \in Range(jsonOutputStreams)
                               THEN "no" ELSE lateJoin[s]]
    /\ UNCHANGED <<loggers, currentLogLevel, alive, stringOutputStreams,
                   isStringOutputEnabled, jsonOutputStreams, isJsonOutputEnabled,
                   aborted>>

\* log: the assert of getLogLevel, then the body.
Log(this, givenLogLevel, args) ==
    /\ ~aborted
    /\ this \in alive
    /\ IF ~(StartIndex(this) >= 0)
          THEN AssertFails(Call("log", this, givenLogLevel, "none", args, NoLevel, FALSE))
          ELSE LogBody(this, givenLogLevel, args)

(***************************************************************************)
(* String output                                                           *)
(***************************************************************************)
\* The body of addStringOutput once its assert has passed.
AddStringBody(outputStream) ==
    stringOutputStreams' = Append(stringOutputStreams, outputStream)

\* Mutant of EnableStringOutput: it resets the JSON counter as
\* enableJsonOutput does.
EnableStringOutput_ResetsCount(outputStream) ==
    /\ ~aborted
    /\ isStringOutputEnabled' = TRUE
    /\ AddStringBody(outputStream)
    /\ jsonOutputsCount' = 0
    /\ lastCall' = Call("enableStringOutput", 0, NoLevel, outputStream, NoArgs,
                        NoLevel, isStringOutputEnabled)
    /\ UNCHANGED <<loggers, currentLogLevel, alive, jsonOutputStreams,
                   isJsonOutputEnabled, output, aborted,
                   passedSinceEnable, span, lateJoin>>

EnableStringOutput(outputStream) ==
    /\ ~aborted
    /\ isStringOutputEnabled' = TRUE
    /\ AddStringBody(outputStream)
    /\ lastCall' = Call("enableStringOutput", 0, NoLevel, outputStream, NoArgs,
                        NoLevel, isStringOutputEnabled)
    /\ UNCHANGED <<loggers, currentLogLevel, alive, jsonOutputStreams,
                   isJsonOutputEnabled, jsonOutputsCount, output, aborted,
                   passedSinceEnable, span, lateJoin>>

AddStringOutput(outputStream) ==
    /\ ~aborted
    /\ LET call == Call("addStringOutput", 0, NoLevel, outputStream, NoArgs,
                        NoLevel, isStringOutputEnabled)
       IN IF ~isStringOutputEnabled
             THEN AssertFails(call)
             ELSE /\ AddStringBody(outputStream)
                  /\ lastCall' = call
                  /\ UNCHANGED <<loggers, currentLogLevel, alive,
                                 isStringOutputEnabled, jsonOutputStreams,
                                 isJsonOutputEnabled, jsonOutputsCount, output,
                                 aborted, passedSinceEnable, span, lateJoin>>

DisableStringOutput ==
    /\ ~aborted
    /\ DisableStringBody
    /\ lastCall' = Call("disableStringOutput", 0, NoLevel, "none", NoArgs, NoLevel,
                        isStringOutputEnabled)
    /\ UNCHANGED <<loggers, currentLogLevel, alive, jsonOutputStreams,
                   isJsonOutputEnabled, jsonOutputsCount, output, aborted,
                   passedSinceEnable, span, lateJoin>>

IsEnabledStringOutput ==
    /\ ~aborted
    /\ lastCall' = Call("isEnabledStringOutput", 0, NoLevel, "none", NoArgs, NoLevel,
                        isStringOutputEnabled)
    /\ UNCHANGED <<progVars, passedSinceEnable, span, lateJoin>>

(***************************************************************************)
(* JSON output                                                             *)
(***************************************************************************)
\* Mutant of CountAfterEnable: the counter is kept.
CountAfterEnable_Kept == jsonOutputsCount

\* The value enableJsonOutput gives jsonOutputsCount.
CountAfterEnable == 0

\* Mutant of AddJsonBody: no "[" is written.
AddJsonBody_NoOpen(outputStream) ==
    /\ jsonOutputStreams' = Append(jsonOutputStreams, outputStream)
    /\ output' = output

\* The body of addJsonOutput once its assert has passed.
AddJsonBody(outputStream) ==
    /\ jsonOutputStreams' = Append(jsonOutputStreams, outputStream)
    /\ output' = [output EXCEPT ![outputStream] = @ \o <<OpenChunk>>]

EnableJsonOutput(outputStream) ==
    /\ ~aborted
    /\ isJsonOutputEnabled' = TRUE
    /\ jsonOutputsCount' = CountAfterEnable
    /\ AddJsonBody(outputStream)
    /\ lastCall' = Call("enableJsonOutput", 0, NoLevel, outputStream, NoArgs,
                        NoLevel, isJsonOutputEnabled)
    /\ passedSinceEnable' = 0
    /\ span' = IF ~isJsonOutputEnabled
                  THEN [state |-> "open", stream |-> outputStream,
                        start |-> Len(output[outputStream]), calls |-> << >>,
                        reenabled |-> FALSE, readded |-> FALSE]
                  ELSE [span EXCEPT !.reenabled = TRUE]
    /\ lateJoin' = [s \in Streams |->
                      IF lateJoin[s] = "pending" THEN "stale" ELSE lateJoin[s]]
    /\ UNCHANGED <<loggers, currentLogLevel, alive, stringOutputStreams,
                   isStringOutputEnabled, aborted>>

AddJsonOutput(outputStream) ==
    /\ ~aborted
    /\ LET call == Call("addJsonOutput", 0, NoLevel, outputStream, NoArgs,
                        NoLevel, isJsonOutputEnabled)
       IN IF ~isJsonOutputEnabled
             THEN AssertFails(call)
             ELSE /\ AddJsonBody(outputStream)
                  /\ lastCall' = call
                  /\ span' = IF span.state = "open" /\ span.stream = outputStream
                                THEN [span EXCEPT !.readded = TRUE] ELSE span
                  /\ lateJoin' = IF passedSinceEnable >= 1
                                    THEN [lateJoin EXCEPT ![outputStream] = "pending"]
                                    ELSE lateJoin
                  /\ UNCHANGED <<loggers, currentLogLevel, alive, stringOutputStreams,
                                 isStringOutputEnabled, isJsonOutputEnabled,
                                 jsonOutputsCount, aborted, passedSinceEnable>>

DisableJsonOutput ==
    /\ ~aborted
    /\ DisableJsonBody
    /\ EndJsonHistory("closed")
    /\ lastCall' = Call("disableJsonOutput", 0, NoLevel, "none", NoArgs, NoLevel,
                        isJsonOutputEnabled)
    /\ UNCHANGED <<loggers, currentLogLevel, alive, stringOutputStreams,
                   isStringOutputEnabled, aborted>>

(***************************************************************************)
(* Logger::setLoggerChainCapacity                                          *)
(***************************************************************************)
\* reserve changes the capacity of the vector only, which nothing reads.
SetLoggerChainCapacity(capacity) ==
    /\ ~aborted
    /\ LET call == Call("setLoggerChainCapacity", 0, capacity, "none", NoArgs,
                        NoLevel, FALSE)
       IN IF ~(capacity > Len(loggers))
             THEN AssertFails(call)
             ELSE /\ lastCall' = call
                  /\ UNCHANGED <<progVars, passedSinceEnable, span, lateJoin>>

(***************************************************************************)
(* The specifications                                                      *)
(***************************************************************************)
\* The arguments of log besides the level: a call with the defaults, and a
\* call with a quoted message, an extra, a file path and a line number.
DefaultArgs ==
    [message |-> <<"h", "i">>, extras |-> << >>, filePath |-> << >>,
     lineNumber |-> -1, showTimestamp |-> TRUE]
FullArgs ==
    [message |-> <<"a", QUOTE, "b">>, extras |-> << <<"x", QUOTE>> >>,
     filePath |-> <<"a", ".", "c">>, lineNumber |-> 10, showTimestamp |-> FALSE]

\* The runs of Spec: every vector up to MaxSinks entries, JSON output on
\* both streams and text output on the first (which both outputs may share).
SinkRuns ==
    [maxLoggers |-> MaxLoggers, maxStringSinks |-> MaxSinks, maxJsonSinks |-> MaxSinks,
     maxOut |-> MaxOut, maxLines |-> MaxOut, maxObjects |-> MaxOut,
     stringStreams |-> {"s1"}, jsonStreams |-> Streams,
     configLevels |-> {WARN}, givenLevels |-> {INFO, WARN}, args |-> {FullArgs}]

\* The runs of SpecChain: a chain of up to ChainMaxLoggers Loggers, destroyed
\* in any order, with one stream.
ChainRuns ==
    [maxLoggers |-> ChainMaxLoggers, maxStringSinks |-> ChainMaxSinks,
     maxJsonSinks |-> ChainMaxSinks, maxOut |-> ChainMaxOut,
     maxLines |-> ChainMaxOut, maxObjects |-> ChainMaxOut,
     stringStreams |-> {"s1"}, jsonStreams |-> {"s1"},
     configLevels |-> {INHERIT, DEBUG, WARN}, givenLevels |-> {INFO, WARN},
     args |-> {DefaultArgs}]

\* The strings of at most n characters of an alphabet.
RECURSIVE StringsUpTo(_, _)
StringsUpTo(alphabet, n) ==
    IF n = 0 THEN {<< >>}
    ELSE LET shorter == StringsUpTo(alphabet, n - 1)
         IN shorter \cup {Append(string, c) : string \in shorter, c \in alphabet}

Alphabet == {"a", QUOTE, APOSTROPHE}

\* The runs of SpecEscape: log with every message over Alphabet and no
\* extras, with every extra over Alphabet, and with two extras.
EscapeArgs ==
    {[DefaultArgs EXCEPT !.message = message] :
        message \in StringsUpTo(Alphabet, EscapeMaxLen)}
    \cup {[DefaultArgs EXCEPT !.extras = <<extra>>] :
            extra \in StringsUpTo(Alphabet, EscapeMaxLen)}
    \cup {[DefaultArgs EXCEPT !.extras = <<<<QUOTE, "a">>, <<"a", QUOTE>>>>]}

EscapeRuns ==
    [maxLoggers |-> TextMaxLoggers, maxStringSinks |-> TextMaxSinks,
     maxJsonSinks |-> TextMaxSinks, maxOut |-> TextMaxOut,
     maxLines |-> EscapeMaxRecords, maxObjects |-> EscapeMaxRecords,
     stringStreams |-> {"s1"}, jsonStreams |-> {"s2"},
     configLevels |-> {INFO}, givenLevels |-> {WARN}, args |-> EscapeArgs]

\* The runs of SpecFormat: log at every level with and without a timestamp,
\* a file path, a line number, and with no, one and two extras.
FormatArgs ==
    {[message |-> <<"b", "o", "o", "m">>, extras |-> extras, filePath |-> filePath,
      lineNumber |-> lineNumber, showTimestamp |-> showTimestamp] :
        extras \in {<< >>, << <<"x", "=", "1">> >>, << <<"x", "=", "1">>, <<"y">> >>},
        filePath \in {<< >>, <<"a", ".", "c">>},
        lineNumber \in {-1, 10},
        showTimestamp \in BOOLEAN}

FormatRuns ==
    [maxLoggers |-> TextMaxLoggers, maxStringSinks |-> TextMaxSinks,
     maxJsonSinks |-> TextMaxSinks, maxOut |-> FormatMaxOut,
     maxLines |-> FormatMaxLines, maxObjects |-> FormatMaxObjects,
     stringStreams |-> {"s1"}, jsonStreams |-> {"s2"},
     configLevels |-> {INFO}, givenLevels |-> LogLevels, args |-> FormatArgs]

\* The chunks written so far, over all streams.
RECURSIVE SumLen(_, _)
SumLen(outputs, streams) ==
    IF streams = {} THEN 0
    ELSE LET s == CHOOSE x \in streams : TRUE
         IN Len(outputs[s]) + SumLen(outputs, streams \ {s})

Written == SumLen(output, Streams)

\* The chunks of a kind written so far, over all streams.
WrittenOf(kind) ==
    SumLen([s \in Streams |-> SelectSeq(output[s], LAMBDA c : c.kind = kind)], Streams)

\* The state is within the bounds of the runs r.
Within(r) ==
    /\ Len(loggers) <= r.maxLoggers
    /\ Len(stringOutputStreams) <= r.maxStringSinks
    /\ Len(jsonOutputStreams) <= r.maxJsonSinks
    /\ Written <= r.maxOut
    /\ WrittenOf("line") <= r.maxLines
    /\ WrittenOf("object") <= r.maxObjects

NextIn(r) ==
    \/ \E logLevel \in r.configLevels : Construct(logLevel) /\ Within(r)'
    \/ \E this \in alive : Destroy(this) /\ Within(r)'
    \/ \E this \in alive : GetLogLevel(this)
    \/ \E this \in alive, givenLogLevel \in r.givenLevels, args \in r.args :
          Log(this, givenLogLevel, args) /\ Within(r)'
    \/ \E outputStream \in r.stringStreams :
          EnableStringOutput(outputStream) /\ Within(r)'
    \/ \E outputStream \in r.stringStreams :
          AddStringOutput(outputStream) /\ Within(r)'
    \/ DisableStringOutput
    \/ IsEnabledStringOutput
    \/ \E outputStream \in r.jsonStreams :
          EnableJsonOutput(outputStream) /\ Within(r)'
    \/ \E outputStream \in r.jsonStreams :
          AddJsonOutput(outputStream) /\ Within(r)'
    \/ DisableJsonOutput /\ Within(r)'
    \/ \E capacity \in {Len(loggers), Len(loggers) + 1} :
          SetLoggerChainCapacity(capacity)

Next == NextIn(SinkRuns)
NextChain == NextIn(ChainRuns)

Spec == Init /\ [][Next]_vars
SpecChain == Init /\ [][NextChain]_vars

NextEscape == NextIn(EscapeRuns)
NextFormat == NextIn(FormatRuns)
SpecEscape == Init /\ [][NextEscape]_vars
SpecFormat == Init /\ [][NextFormat]_vars

(***************************************************************************)
(* Vocabulary of the properties                                            *)
(***************************************************************************)
Occurrences(seq, x) == Cardinality({i \in 1..Len(seq) : seq[i] = x})

\* What a step appends to stream s.
Appended(s) == SubSeq(output'[s], Len(output[s]) + 1, Len(output'[s]))

\* A step only appends to the streams.
OnlyAppends ==
    \A s \in Streams :
        /\ Len(output'[s]) >= Len(output[s])
        /\ SubSeq(output'[s], 1, Len(output[s])) = output[s]

HasKind(chunks, kind) == \E i \in 1..Len(chunks) : chunks[i].kind = kind

\* The step is a log call whose level is at or above the level resolved.
LogPassed == lastCall'.op = "log" /\ lastCall'.level >= lastCall'.threshold
\* The step is a log call whose level is below the level resolved.
LogDropped == lastCall'.op = "log" /\ lastCall'.level < lastCall'.threshold

\* The step writes a text line to every entry of stringOutputStreams and a
\* JSON object to every entry of jsonOutputStreams.
EverySinkWritten ==
    /\ \A s \in Range(stringOutputStreams) : HasKind(Appended(s), "line")
    /\ \A s \in Range(jsonOutputStreams) : HasKind(Appended(s), "object")

(***************************************************************************)
(* C1.  As claimed: for every Logger whose configured level is a concrete  *)
(* level s2, whatever other Loggers have been constructed, with a text or  *)
(* JSON output enabled, log(s1) on it with s1 < s2 writes nothing and      *)
(* log(s3) with s3 >= s2 writes a record to every enabled sink.            *)
(***************************************************************************)
C1_Case(logger) ==
    /\ lastCall'.op = "log"
    /\ lastCall'.logger = logger
    /\ currentLogLevel[logger] # INHERIT
    /\ isStringOutputEnabled \/ isJsonOutputEnabled

C1_Effect(logger) ==
    /\ lastCall'.level < currentLogLevel[logger] => UNCHANGED output
    /\ lastCall'.level >= currentLogLevel[logger] => EverySinkWritten

ConcreteEntries == {i \in 1..Len(loggers) : currentLogLevel[loggers[i]] # INHERIT}

ConfiguredResolution ==
    IF ConcreteEntries = {} THEN TINYLOG_DEFAULT_LOG_LEVEL
    ELSE currentLogLevel[loggers[CHOOSE i \in ConcreteEntries :
                                    \A j \in ConcreteEntries : j <= i]]

C2_Resolution ==
    lastCall.op = "getLogLevel" =>
        /\ lastCall.threshold = ConfiguredResolution
        /\ lastCall.threshold # INHERIT

(***************************************************************************)
(* C3.  A log call whose level is below the level resolved changes         *)
(* nothing: no stream receives anything, and the counter, both flags,      *)
(* both vectors and the chain keep their values.                           *)
(***************************************************************************)
C3_DroppedLogChangesNothing == [][LogDropped => UNCHANGED progVars]_vars

\* A log call was dropped while both outputs were enabled, after an object.
C3_Witness ==
    /\ lastCall.op = "log"
    /\ lastCall.level < lastCall.threshold
    /\ isStringOutputEnabled /\ isJsonOutputEnabled
    /\ jsonOutputsCount >= 1

(***************************************************************************)
(* C4.  As claimed: a stream registered by enableJsonOutput while JSON     *)
(* output was disabled, then n >= 0 log calls that pass the filter, then   *)
(* disableJsonOutput, with no other enableJsonOutput and no Logger         *)
(* destroyed in between, has received exactly "[", the n objects in call   *)
(* order with one "," between consecutive objects and none before the      *)
(* first or after the last, and "]".  (What the stream has received is     *)
(* read from the chunks of the JSON output; text lines written to the same *)
(* stream are left out.)                                                   *)
(***************************************************************************)
JsonPart(chunks) == SelectSeq(chunks, LAMBDA c : c.kind # "line")

\* What the stream of span has received since the enableJsonOutput of span.
SpanSegment ==
    SubSeq(output[span.stream], span.start + 1, Len(output[span.stream]))

ExpectedObject(call) ==
    JsonObject(call.level, escapeString(call.args.message),
               escapeAll(call.args.extras), call.timestamp)

ExpectedArray(calls) ==
    <<OpenChunk>>
    \o [i \in 1..Len(calls) |-> ObjectChunk(i > 1, ExpectedObject(calls[i]))]
    \o <<CloseChunk>>

C4_ClosedArray ==
    span.state = "closed" /\ ~span.reenabled =>
        JsonPart(SpanSegment) = ExpectedArray(span.calls)

\* C4 as amended: the same, provided addJsonOutput does not register the
\* stream again in between.
C4_ClosedArrayOnce ==
    span.state = "closed" /\ ~span.reenabled /\ ~span.readded =>
        JsonPart(SpanSegment) = ExpectedArray(span.calls)

\* An array of two objects has been closed by disableJsonOutput.
C4_Witness ==
    /\ span.state = "closed" /\ ~span.reenabled /\ ~span.readded
    /\ Len(span.calls) = 2
    /\ lastCall.op = "disableJsonOutput"

(***************************************************************************)
(* C5.  The destruction of any Logger, whichever Loggers are alive, leaves *)
(* both outputs disabled, both vectors empty and the counter 0, having     *)
(* written one "]" per entry of jsonOutputStreams and nothing else; from   *)
(* then on no log call writes anything until an enable operation.          *)
(***************************************************************************)
C5_Teardown ==
    lastCall'.op = "~Logger" =>
        /\ ~isStringOutputEnabled' /\ ~isJsonOutputEnabled'
        /\ stringOutputStreams' = << >> /\ jsonOutputStreams' = << >>
        /\ jsonOutputsCount' = 0
        /\ \A s \in Streams :
              output'[s] = output[s]
                  \o [i \in 1..Occurrences(jsonOutputStreams, s) |-> CloseChunk]

C5_SilentUntilEnabled ==
    ~isStringOutputEnabled /\ ~isJsonOutputEnabled =>
        /\ lastCall'.op = "log" => UNCHANGED output
        /\ lastCall'.op \notin {"enableStringOutput", "enableJsonOutput"} =>
              /\ ~isStringOutputEnabled' /\ ~isJsonOutputEnabled'
              /\ stringOutputStreams' = << >> /\ jsonOutputStreams' = << >>

FirstObject(chunks) ==
    chunks[CHOOSE i \in 1..Len(chunks) :
              /\ chunks[i].kind = "object"
              /\ \A j \in 1..(i - 1) : chunks[j].kind # "object"]

C6_AddOpens ==
    lastCall'.op = "addJsonOutput" /\ ~aborted' =>
        Appended(lastCall'.stream) = <<OpenChunk>>

C6_FirstObjectAfter(joined) ==
    \A s \in Streams :
        lateJoin[s] \in joined /\ HasKind(Appended(s), "object") =>
            FirstObject(Appended(s)).comma

C6_LateJoinComma ==
    [][C6_AddOpens /\ C6_FirstObjectAfter({"pending", "stale"})]_vars

\* C6 as amended: the same, provided enableJsonOutput is not called between
\* the addJsonOutput and that object.
C6_LateJoinCommaUnlessEnabled ==
    [][C6_AddOpens /\ C6_FirstObjectAfter({"pending"})]_vars

\* The second stream joined after an object and has received "[" and then
\* an object with its ",".
C6_Witness ==
    /\ lastCall.op = "log"
    /\ Len(output["s2"]) = 2
    /\ output["s2"][1] = OpenChunk
    /\ output["s2"][2].kind = "object" /\ output["s2"][2].comma
    /\ jsonOutputStreams = <<"s1", "s2">>

(***************************************************************************)
(* C7.  After any call of enableJsonOutput, JSON output disabled before or *)
(* already enabled with objects written, the counter is 0 and the objects  *)
(* of the next log call that passes the filter carry no "," on any entry   *)
(* of jsonOutputStreams.                                                   *)
(***************************************************************************)
C7_EnableResets == lastCall'.op = "enableJsonOutput" => jsonOutputsCount' = 0

C7_NextObjectBare ==
    passedSinceEnable = 0 /\ LogPassed =>
        \A s \in Range(jsonOutputStreams) :
            /\ HasKind(Appended(s), "object")
            /\ \A i \in 1..Len(Appended(s)) :
                  Appended(s)[i].kind = "object" => ~Appended(s)[i].comma

C7_EnableRestartsArray == [][C7_EnableResets /\ C7_NextObjectBare]_vars

\* enableJsonOutput was called with objects already written, and the log
\* call after it has written an object to the stream of the first call.
C7_Witness ==
    /\ span.state = "open" /\ span.reenabled /\ Len(span.calls) >= 2
    /\ lastCall.op = "log" /\ lastCall.level >= lastCall.threshold
    /\ passedSinceEnable = 1 /\ jsonOutputsCount = 1
    /\ LET out == output[span.stream]
       IN out[Len(out)].kind = "object" /\ ~out[Len(out)].comma

(***************************************************************************)
(* C8.  Every stream receives the log calls that pass the filter while it  *)
(* is registered, in call order, once per occurrence in the vector: a      *)
(* passing call appends one text line per occurrence in                    *)
(* stringOutputStreams and then one JSON object per occurrence in          *)
(* jsonOutputStreams, a filtered call appends nothing to any stream, and   *)
(* no other operation appends a line or an object.                         *)
(***************************************************************************)
LinesDue(s) == IF isStringOutputEnabled THEN Occurrences(stringOutputStreams, s) ELSE 0
ObjectsDue(s) == IF isJsonOutputEnabled THEN Occurrences(jsonOutputStreams, s) ELSE 0

IsLineOf(chunk, call) ==
    \E timestamp \in Timestamps :
        chunk = LineChunk(StringLine(call.level, call.args.showTimestamp,
                                     call.args.filePath, call.args.lineNumber,
                                     call.args.message, call.args.extras, timestamp))

IsObjectOf(chunk, call) ==
    /\ chunk.kind = "object"
    /\ \E timestamp \in Timestamps :
          chunk.object = ExpectedObject([level |-> call.level, args |-> call.args,
                                         timestamp |-> timestamp])

C8_PassedReachesAll ==
    LogPassed =>
        \A s \in Streams :
            /\ Len(Appended(s)) = LinesDue(s) + ObjectsDue(s)
            /\ \A i \in 1..LinesDue(s) : IsLineOf(Appended(s)[i], lastCall')
            /\ \A i \in (LinesDue(s) + 1)..Len(Appended(s)) :
                  IsObjectOf(Appended(s)[i], lastCall')

C8_OthersWriteNoRecord ==
    /\ LogDropped => UNCHANGED output
    /\ lastCall'.op # "log" =>
          \A s \in Streams : ~HasKind(Appended(s), "line")
                             /\ ~HasKind(Appended(s), "object")

C8_AllOrNothing ==
    [][OnlyAppends /\ C8_PassedReachesAll /\ C8_OthersWriteNoRecord]_vars

\* One passing call has written a line and two objects: the stream of the
\* text output is twice in jsonOutputStreams.
C8_Witness ==
    /\ lastCall.op = "log" /\ lastCall.level >= lastCall.threshold
    /\ isStringOutputEnabled /\ isJsonOutputEnabled
    /\ stringOutputStreams = <<"s1">> /\ jsonOutputStreams = <<"s1", "s1">>
    /\ LET out == output["s1"]
       IN /\ Len(out) >= 3
          /\ out[Len(out) - 2].kind = "line"
          /\ out[Len(out) - 1].kind = "object"
          /\ out[Len(out)].kind = "object"

(***************************************************************************)
(* C9.  While JSON output is enabled the counter is the number of log      *)
(* calls that passed the filter since the last enableJsonOutput: one more  *)
(* per passing call however many JSON streams there are, so that the       *)
(* objects of one call all carry a "," or none does; it decreases only to  *)
(* 0, by enableJsonOutput or disableJsonOutput (which ~Logger calls); a    *)
(* log call with JSON output disabled leaves it alone.                     *)
(***************************************************************************)
ObjectCommas(s) ==
    {Appended(s)[i].comma : i \in {j \in 1..Len(Appended(s)) :
                                       Appended(s)[j].kind = "object"}}

C9_CountsPassedCalls ==
    /\ isJsonOutputEnabled' => jsonOutputsCount' = passedSinceEnable'
    /\ LogPassed /\ isJsonOutputEnabled => jsonOutputsCount' = jsonOutputsCount + 1
    /\ LogPassed => Cardinality(UNION {ObjectCommas(s) : s \in Streams}) <= 1
    /\ lastCall'.op = "log" /\ ~isJsonOutputEnabled => UNCHANGED jsonOutputsCount
    /\ jsonOutputsCount' < jsonOutputsCount =>
          /\ jsonOutputsCount' = 0
          /\ lastCall'.op \in {"enableJsonOutput", "disableJsonOutput", "~Logger"}

C9_SharedCounter == [][C9_CountsPassedCalls]_vars

\* The second passing call with two JSON streams: both objects carry a ","
\* and the counter is 2.
C9_Witness ==
    /\ lastCall.op = "log" /\ lastCall.level >= lastCall.threshold
    /\ isJsonOutputEnabled /\ jsonOutputStreams = <<"s1", "s2">>
    /\ jsonOutputsCount = 2 /\ passedSinceEnable = 2
    /\ output["s1"][Len(output["s1"])].comma
    /\ output["s2"][Len(output["s2"])].comma

(***************************************************************************)
(* C10.  disableStringOutput with text output disabled and                 *)
(* disableJsonOutput with JSON output disabled change nothing: no stream   *)
(* receives anything, no "]" in particular, and the flags, vectors and     *)
(* counter keep their values; so the second of two disable calls in a row  *)
(* changes nothing.                                                        *)
(***************************************************************************)
C10_DisabledNoOp ==
    /\ lastCall'.op = "disableStringOutput" /\ ~isStringOutputEnabled =>
          UNCHANGED progVars
    /\ lastCall'.op = "disableJsonOutput" /\ ~isJsonOutputEnabled =>
          UNCHANGED progVars

C10_TwiceIsOnce ==
    \A op \in {"disableStringOutput", "disableJsonOutput"} :
        lastCall.op = op /\ lastCall'.op = op => UNCHANGED progVars

C10_DisableIdempotent == [][C10_DisabledNoOp /\ C10_TwiceIsOnce]_vars

\* disableJsonOutput has been called with JSON output disabled, after an
\* earlier call had closed an array.
C10_Witness ==
    /\ lastCall.op = "disableJsonOutput" /\ ~lastCall.wasEnabled
    /\ span.state = "closed"
    /\ ~isJsonOutputEnabled /\ jsonOutputStreams = << >>
    /\ output[span.stream][Len(output[span.stream])].kind = "]"

(***************************************************************************)
(* C11.  addStringOutput with text output disabled and addJsonOutput with  *)
(* JSON output disabled end in a failed assert before any effect: the      *)
(* stream is not appended to the vector, the flag stays false, and no "["  *)
(* is written.                                                             *)
(***************************************************************************)
C11_NothingButAbort ==
    /\ aborted'
    /\ UNCHANGED <<loggers, currentLogLevel, alive, stringOutputStreams,
                   isStringOutputEnabled, jsonOutputStreams, isJsonOutputEnabled,
                   jsonOutputsCount, output>>

C11_AddNeedsEnable ==
    [][/\ lastCall'.op = "addStringOutput" /\ ~isStringOutputEnabled =>
             C11_NothingButAbort
       /\ lastCall'.op = "addJsonOutput" /\ ~isJsonOutputEnabled =>
             C11_NothingButAbort]_vars

\* addJsonOutput of a stream was called after disableJsonOutput had closed
\* its array: the assert has failed and the stream still ends with that "]".
C11_Witness ==
    /\ aborted
    /\ lastCall.op = "addJsonOutput" /\ ~lastCall.wasEnabled
    /\ ~isJsonOutputEnabled /\ jsonOutputStreams = << >>
    /\ Len(output[lastCall.stream]) >= 2
    /\ output[lastCall.stream][Len(output[lastCall.stream])].kind = "]"

(***************************************************************************)
(* C12.  The chain is append-only: the construction of a Logger appends    *)
(* one entry, that Logger, at the end, so that the length of loggers is    *)
(* the number of Loggers constructed and its order their order of          *)
(* construction; no other operation changes loggers, and no operation      *)
(* changes the level a Logger was constructed with.                        *)
(***************************************************************************)
Constructed == Len(currentLogLevel)

C12_Step ==
    /\ IF lastCall'.op = "Logger"
          THEN /\ Constructed' = Constructed + 1
               /\ loggers' = Append(loggers, lastCall'.logger)
               /\ lastCall'.logger = Constructed'
          ELSE /\ Constructed' = Constructed
               /\ loggers' = loggers
    /\ Len(loggers') = Constructed'
    /\ \A i \in 1..Len(loggers') : loggers'[i] = i
    /\ \A logger \in 1..Constructed : currentLogLevel'[logger] = currentLogLevel[logger]

StringOps == {"enableStringOutput", "addStringOutput", "disableStringOutput"}
JsonOps == {"enableJsonOutput", "addJsonOutput", "disableJsonOutput"}

C13_StringOpsLeaveJson ==
    lastCall'.op \in StringOps =>
        /\ UNCHANGED output
        /\ UNCHANGED <<isJsonOutputEnabled, jsonOutputStreams, jsonOutputsCount>>

C13_JsonOpsLeaveText(written) ==
    lastCall'.op \in JsonOps =>
        /\ UNCHANGED <<isStringOutputEnabled, stringOutputStreams>>
        /\ \A s \in Range(stringOutputStreams) \ written : output'[s] = output[s]
        /\ \A s \in Streams : ~HasKind(Appended(s), "line")

C13_Independent == [][C13_StringOpsLeaveJson /\ C13_JsonOpsLeaveText({})]_vars

\* The streams a JSON operation writes its "[" or "]" to.
JsonWritten ==
    IF lastCall'.op = "disableJsonOutput" THEN Range(jsonOutputStreams)
                                          ELSE {lastCall'.stream}

\* C13 as amended: the same, except that a text stream that is also the
\* stream registered by enableJsonOutput or addJsonOutput receives the "[",
\* and one that is also in jsonOutputStreams receives the "]" of
\* disableJsonOutput.
C13_IndependentUnlessShared ==
    [][C13_StringOpsLeaveJson /\ C13_JsonOpsLeaveText(JsonWritten)]_vars

\* With text output on the first stream and objects written,
\* enableJsonOutput has registered the second stream: the first stream has
\* received nothing and the text state is as it was.
C13_Witness ==
    /\ lastCall.op = "enableJsonOutput" /\ lastCall.stream = "s2"
    /\ isStringOutputEnabled /\ stringOutputStreams = <<"s1">>
    /\ output["s2"] = <<OpenChunk>>
    /\ HasKind(output["s1"], "line")
    /\ output["s1"][Len(output["s1"])].kind = "line"

(***************************************************************************)
(* C14.  For every message and every extra over Alphabet, which has the    *)
(* double quote: the message and the extras of the JSON object a log call  *)
(* writes are the originals with every double quote replaced by an         *)
(* apostrophe and every other character unchanged, so that none holds a    *)
(* double quote; the text line of the same call has the originals          *)
(* unmodified.                                                             *)
(***************************************************************************)
HasField(object, key) == \E i \in 1..Len(object) : object[i][1] = key
FieldOf(object, key) ==
    object[CHOOSE i \in 1..Len(object) : object[i][1] = key][2]

IsEscapeOf(written, original) ==
    /\ Len(written) = Len(original)
    /\ \A i \in 1..Len(original) :
          /\ original[i] = QUOTE => written[i] = APOSTROPHE
          /\ original[i] # QUOTE => written[i] = original[i]
          /\ written[i] # QUOTE

C14_ObjectEscaped(object, args) ==
    /\ IsEscapeOf(FieldOf(object, "message"), args.message)
    /\ HasField(object, "extras") <=> args.extras # << >>
    /\ HasField(object, "extras") =>
          /\ Len(FieldOf(object, "extras")) = Len(args.extras)
          /\ \A i \in 1..Len(args.extras) :
                IsEscapeOf(FieldOf(object, "extras")[i], args.extras[i])

C14_LineUnmodified(text, level, args) ==
    \E timestamp \in Timestamps :
        text = StringLine(level, args.showTimestamp, args.filePath, args.lineNumber,
                          args.message, args.extras, timestamp)

C14_Step ==
    LogPassed =>
        \A s \in Streams : \A i \in 1..Len(Appended(s)) :
            LET chunk == Appended(s)[i] IN
            /\ chunk.kind = "object" => C14_ObjectEscaped(chunk.object, lastCall'.args)
            /\ chunk.kind = "line" =>
                  C14_LineUnmodified(chunk.text, lastCall'.level, lastCall'.args)

C14_QuotesEscapedInJsonOnly == [][C14_Step]_vars

\* One call whose message is two double quotes has written the line with
\* the two double quotes and the object with two apostrophes.
C14_Witness ==
    /\ lastCall.op = "log" /\ lastCall.args.message = <<QUOTE, QUOTE>>
    /\ Len(output["s1"]) = 1 /\ output["s1"][1].kind = "line"
    /\ Occurrences(output["s1"][1].text, QUOTE) = 2
    /\ Len(output["s2"]) = 2 /\ output["s2"][2].kind = "object"
    /\ FieldOf(output["s2"][2].object, "message") = <<APOSTROPHE, APOSTROPHE>>

(***************************************************************************)
(* C15.  With the extras inline, the text line of a passing log call is    *)
(* exactly: "[", the name of the level padded to 5 characters, "] "; the   *)
(* timestamp and " - " iff showTimestamp; the file path and " " iff there  *)
(* is a file path; "(line N) " iff there is a line number; "- " iff there  *)
(* is a file path or a line number; the message; iff there are extras,     *)
(* " - EXTRAS - " and then " ", the extra and " ;" for each extra in       *)
(* order; and a newline.  log(ERROR, boom, [x=1], a.c, 10, false) writes   *)
(* C15_ExampleLine.                                                        *)
(***************************************************************************)
C15_PaddedName(level) ==
    CASE level = DEBUG -> <<"D", "E", "B", "U", "G">>
      [] level = INFO -> <<"I", "N", "F", "O", " ">>
      [] level = WARN -> <<"W", "A", "R", "N", " ">>
      [] level = ERROR -> <<"E", "R", "R", "O", "R">>
      [] level = FATAL -> <<"F", "A", "T", "A", "L">>

C15_Number(lineNumber) == CASE lineNumber = 10 -> <<"1", "0">>

RECURSIVE C15_Extras(_)
C15_Extras(extras) ==
    IF extras = << >> THEN << >>
    ELSE <<" ">> \o Head(extras) \o <<" ", ";">> \o C15_Extras(Tail(extras))

C15_Line(level, args, timestamp) ==
    <<"[">> \o C15_PaddedName(level) \o <<"]", " ">>
    \o (IF args.showTimestamp THEN <<timestamp>> \o <<" ", "-", " ">> ELSE << >>)
    \o (IF args.filePath # << >> THEN args.filePath \o <<" ">> ELSE << >>)
    \o (IF args.lineNumber # -1
           THEN <<"(", "l", "i", "n", "e", " ">> \o C15_Number(args.lineNumber) \o <<")", " ">> ELSE << >>)
    \o (IF args.filePath # << >> \/ args.lineNumber # -1 THEN <<"-", " ">> ELSE << >>)
    \o args.message
    \o (IF args.extras # << >> THEN <<" ", "-", " ", "E", "X", "T", "R", "A", "S", " ", "-", " ">> \o C15_Extras(args.extras)
                               ELSE << >>)
    \o <<"\n">>

C15_ExampleArgs ==
    [message |-> <<"b", "o", "o", "m">>, extras |-> << <<"x", "=", "1">> >>, filePath |-> <<"a", ".", "c">>,
     lineNumber |-> 10, showTimestamp |-> FALSE]

C15_ExampleLine ==
    <<"[", "E", "R", "R", "O", "R", "]", " ", "a", ".", "c", " ", "(", "l", "i", "n", "e", " ", "1", "0", ")", " ", "-", " ", "b", "o", "o", "m", " ", "-", " ", "E", "X", "T", "R", "A", "S", " ", "-", " ", " ", "x", "=", "1", " ", ";", "\n">>

C15_Step ==
    /\ LogPassed =>
          \A s \in Streams : \A i \in 1..Len(Appended(s)) :
              Appended(s)[i].kind = "line" =>
                  \E timestamp \in Timestamps :
                      Appended(s)[i].text = C15_Line(lastCall'.level, lastCall'.args,
                                                     timestamp)
    /\ LogPassed /\ lastCall'.level = ERROR /\ lastCall'.args = C15_ExampleArgs =>
          \A s \in Streams : \A i \in 1..Len(Appended(s)) :
              Appended(s)[i].kind = "line" => Appended(s)[i].text = C15_ExampleLine
    /\ LogPassed /\ isStringOutputEnabled =>
          \A s \in Range(stringOutputStreams) : HasKind(Appended(s), "line")

C15_TextLineFormat == [][TINYLOG_EXTRAS_ON_SEPARATE_LINES = 0 => C15_Step]_vars

\* The call of the example has written the line of the example.
C15_Witness ==
    /\ lastCall.op = "log" /\ lastCall.level = ERROR
    /\ lastCall.args = C15_ExampleArgs
    /\ output["s1"] = <<LineChunk(C15_ExampleLine)>>

(***************************************************************************)
(* C16.  Whenever getLogLevel is called, directly or by log, loggers is    *)
(* not empty, so that the assert currentLoggerIndex >= 0 holds; every      *)
(* index the walk reads at is within 0 .. loggers.size() - 1; and the walk *)
(* ends after reading at most loggers.size() entries.                      *)
(***************************************************************************)
C16_Step ==
    lastCall'.op \in {"getLogLevel", "log"} =>
        LET start == StartIndex(lastCall'.logger) IN
        /\ Len(loggers) >= 1
        /\ start >= 0
        /\ ~aborted'
        /\ WalkIndices(start) \subseteq 0..(Len(loggers) - 1)
        /\ Cardinality(WalkIndices(start)) <= Len(loggers)

C16_WalkInBounds == [][C16_Step]_vars

\* getLogLevel has walked a chain of three Loggers down to the first, the
\* second having been destroyed.
C16_Witness ==
    /\ lastCall.op = "getLogLevel"
    /\ Len(loggers) = 3
    /\ loggers[2] \notin alive
    /\ currentLogLevel = <<WARN, INHERIT, INHERIT>>
    /\ lastCall.threshold = WARN
    /\ WalkIndices(StartIndex(lastCall.logger)) = {0, 1, 2}

(***************************************************************************)
(* C17.  As claimed: every entry of loggers whose level getLogLevel reads, *)
(* in a log call or a direct call on a live Logger, is a Logger that has   *)
(* not been destroyed.                                                     *)
(***************************************************************************)
C17_Step ==
    lastCall'.op \in {"getLogLevel", "log"} /\ ~aborted' =>
        \A index \in WalkIndices(StartIndex(lastCall'.logger)) :
            loggers[index + 1] \in alive

C17_ReadsOnlyLive == [][C17_Step]_vars

(***************************************************************************)
(* C18.  As claimed: after any sequence of operations, any two objects     *)
(* written one after the other to the same JSON stream, with no "[" and no *)
(* "]" between them, are separated by exactly one ",".                     *)
(***************************************************************************)
C18_AlwaysSeparated ==
    \A s \in Streams :
        LET json == JsonPart(output[s]) IN
        \A i \in 2..Len(json) :
            json[i - 1].kind = "object" /\ json[i].kind = "object" => json[i].comma

\* C18 as amended: the same, unless the second of the two objects is
\* written by the first log call that passes the filter after an
\* enableJsonOutput.
C18_Step ==
    LogPassed /\ passedSinceEnable # 0 =>
        \A s \in Streams :
            LET before == JsonPart(output[s])
                after == JsonPart(output'[s])
            IN \A i \in (Len(before) + 1)..Len(after) :
                  i >= 2 /\ after[i - 1].kind = "object" /\ after[i].kind = "object"
                      => after[i].comma

C18_SeparatedAfterFirst == [][C18_Step]_vars

\* The second passing call since enableJsonOutput has written, to a stream
\* registered twice, two objects after the two of the first call.
C18_Witness ==
    /\ lastCall.op = "log" /\ passedSinceEnable = 2
    /\ jsonOutputStreams = <<"s2", "s2">>
    /\ LET json == JsonPart(output["s2"])
       IN /\ Len(json) = 6
          /\ \A i \in 3..6 : json[i].kind = "object"
          /\ ~json[3].comma /\ ~json[4].comma /\ json[5].comma /\ json[6].comma

(***************************************************************************)
(* C19.  In every reachable state, a failed assert being the end: text     *)
(* output is enabled iff stringOutputStreams is not empty, JSON output is  *)
(* enabled iff jsonOutputStreams is not empty, and with JSON output        *)
(* disabled the counter is 0.                                              *)
(***************************************************************************)
C19_FlagsMatchVectors ==
    /\ isStringOutputEnabled <=> stringOutputStreams # << >>
    /\ isJsonOutputEnabled <=> jsonOutputStreams # << >>
    /\ ~isJsonOutputEnabled => jsonOutputsCount = 0

\* Text output has been disabled after a line was written, with JSON output
\* still enabled and an object written.
C19_Witness ==
    /\ lastCall.op = "disableStringOutput" /\ lastCall.wasEnabled
    /\ ~isStringOutputEnabled /\ stringOutputStreams = << >>
    /\ HasKind(output["s1"], "line")
    /\ isJsonOutputEnabled /\ jsonOutputsCount >= 1

(***************************************************************************)
(* C20.  In every reachable state and for every stream, the number of "["  *)
(* it has received minus the number of "]" is the number of its            *)
(* occurrences in jsonOutputStreams; so right after disableJsonOutput or   *)
(* the destruction of a Logger every stream has received as many "]" as    *)
(* "[", also one registered twice or added after objects were written.     *)
(***************************************************************************)
CountOf(chunks, kind) == Len(SelectSeq(chunks, LAMBDA c : c.kind = kind))

C20_BracketsBalance ==
    /\ \A s \in Streams :
          CountOf(output[s], "[") - CountOf(output[s], "]")
              = Occurrences(jsonOutputStreams, s)
    /\ lastCall.op \in {"disableJsonOutput", "~Logger"} =>
          \A s \in Streams : CountOf(output[s], "[") = CountOf(output[s], "]")

\* disableJsonOutput has closed the first stream, registered twice, and the
\* second stream, added after an object was written.
C20_Witness ==
    /\ lastCall.op = "disableJsonOutput" /\ lastCall.wasEnabled
    /\ CountOf(output["s1"], "[") = 2 /\ CountOf(output["s1"], "]") = 2
    /\ CountOf(output["s1"], "object") >= 1
    /\ output["s2"] = <<OpenChunk, CloseChunk>>

====
